---- MODULE Spec2Model ----
(***************************************************************************)
(* Model of DatabaseManager (src/db/manager.py): the ClickHouse/SQLite     *)
(* connection manager.  Each thread runs get_connection() or close_all()   *)
(* one statement at a time; a label gNNN / tNNN / sNNN / cNNN is the line  *)
(* of manager.py the thread executes next, and dNN a line of               *)
(* get_date_range_cached(), kNNN of get_sqlite_cursor(), nNN / iNN of      *)
(* __new__ / __init__.  _backend_type is written but never decides         *)
(* anything and is left out.                                               *)
(*   Spec                 concurrent get_connection()                      *)
(*   SpecShutdown         Spec with close_all()                            *)
(*   SpecSequential       calls that do not overlap, clock at rest         *)
(*   SpecCache            concurrent get_date_range_cached(), clock moves  *)
(*   SpecCacheSequential  SpecCache with calls that do not overlap         *)
(*   SpecCursor           Spec with get_sqlite_cursor() blocks             *)
(*   SpecLifecycle        SpecSequential with get_sqlite_cursor() blocks   *)
(*   SpecConstruct        concurrent first constructions DatabaseManager() *)
(***************************************************************************)
EXTENDS Integers, Sequences, FiniteSets, TLC

\* ---------------------------------------------------------------- bounds
NumThreads == 2
MaxClients == 2
SeqCap == 2
MaxRefresh == 2
MaxClock == 62

\* ------------------------------------------------------ program constants
CH_MAX_RETRIES == 3
CH_RETRY_BASE_DELAY == 1
CH_RETRY_BACKOFF == 2
DATE_RANGE_TTL == 60

Threads == 1..NumThreads
NoThread == 0
NoClient == 0
NoConn == 0
NoValue == 0
NoInstance == 0

\* the amounts of time that pass between two readings of the clock
TickSteps == {29, 30, 31}

NoResult == [kind |-> "none", handle |-> 0]

VARIABLES
    ch_available,       \* _ch_available: "None" | "True" | "False"
    ch_client,          \* _ch_client: NoClient or a client id
    ch_lock,            \* _ch_lock: NoThread or the thread that holds it
    thread_local,       \* _thread_local.sqlite_conn of each thread
    sqlite_conns,       \* _sqlite_conns: the list of tracked connections
    sqlite_conns_lock,  \* _sqlite_conns_lock: NoThread or its holder
    sqlite_closed,      \* the connections conn.close() was called on
    pc,                 \* the statement each thread executes next
    attempt,            \* local `attempt` of _try_clickhouse_with_retry
    delay,              \* local `delay` of _try_clickhouse_with_retry
    client,             \* local `client` of _try_clickhouse_with_retry
    conn,               \* local `conn` of _get_sqlite_conn
    observed,           \* the thread whose calls are observed: thread 1, which
                        \* stands for any thread (all threads run the same code)
    result,             \* what the observed thread's last call returned or raised
    db_exists,          \* os.path.exists(SQLITE_DB)
    next_client,        \* the id of the next client get_client() creates
    next_conn,          \* the id of the next connection sqlite3.connect() creates
    hb_failed,          \* the handle the observed call's line-152 heartbeat failed on
    late,               \* the observed call started after a heartbeat had failed
                        \* on the handle that is still the cached one
    unavail,            \* the flag was False when the observed call started
                        \* with no close_all() in progress or called since
    found_available,    \* the observed call's re-check of line 165, under the
                        \* lock, found the flag True
    cache_failed,       \* a line-152 heartbeat has failed on the cached handle
    seq_count,          \* reconnect sequences started since the flag was last
                        \* set to None, counted up to SeqCap
    sleeps,             \* the delays time.sleep() was called with (line 109) in
                        \* the reconnect sequence in progress
    closed_last,        \* a close_all() has returned and neither get_connection()
                        \* nor get_sqlite_cursor() has been called since
    hb_ever_failed,     \* a line-152 heartbeat has failed at some time
    date_range_cache,   \* _date_range_cache: NoValue (None) or a fetched tuple
    date_range_ts,      \* _date_range_ts
    clock,              \* what time.time() returns
    now,                \* local `now` of get_date_range_cached
    fetched,            \* local `result` of get_date_range_cached
    next_value,         \* the id of the next tuple fetch_impl_func returns
    seen,               \* the stored entry when the observed call read the clock
    computed,           \* the observed call has invoked fetch_impl_func
    prev_raised,        \* the last get_date_range_cached call that ended raised
    ts_by,              \* the tuple fetched by the call that wrote _date_range_ts
    in_cursor,          \* the thread is inside get_sqlite_cursor()
    cur_conn,           \* local `conn` of get_sqlite_cursor
    leave,              \* how the with-block of the caller was left
    cursor_open,        \* the threads whose cursor is open (created, not closed)
    idx,                \* the position of the loop of line 189 in _sqlite_conns
    close_raised,       \* the connections whose conn.close() raised (line 191)
    instance,           \* DatabaseManager._instance: NoInstance or an object id
    cls_lock,           \* DatabaseManager._lock: NoThread or its holder
    initialized,        \* _initialized of the instance: "unset" | "False" | "True"
    created,            \* the number of objects super().__new__ has created
    self_ref            \* what __new__ returned to each thread (`self` of __init__)

mgr == <<ch_available, ch_client, ch_lock>>
pool == <<thread_local, sqlite_conns, sqlite_conns_lock, sqlite_closed>>
locals == <<attempt, delay, client, conn>>
env == <<db_exists, next_client, next_conn>>
call == <<observed, hb_failed, late, unavail, found_available>>
hist == <<cache_failed, seq_count, sleeps, closed_last, hb_ever_failed>>
dr == <<date_range_cache, date_range_ts, clock, now, fetched, next_value>>
drhist == <<seen, computed, prev_raised, ts_by>>
cur == <<in_cursor, cur_conn, leave, cursor_open>>
shut == <<idx, close_raised>>
single == <<instance, cls_lock, initialized, created, self_ref>>
vars == <<mgr, pool, pc, locals, result, env, call, hist, dr, drhist, cur, shut, single>>

NoEntry == [cache |-> NoValue, ts |-> 0]

\* the statements of _try_clickhouse_with_retry, of close_all, and those of
\* get_connection that a call takes when it goes straight to the fallback
SeqPcs == {"t93", "t98", "t99", "t100", "t109", "t112"}
ClosePcs == {"c188", "c189", "c191", "c194", "c196", "c198", "c204", "c206"}
FallbackPcs == {"g149", "g163", "s121", "s125", "s135", "s136"}

Goto(t, l) == pc' = [pc EXCEPT ![t] = l]

\* an assignment self._ch_client = c. The handle it replaces is never cached
\* again (get_client creates a new object), so what is recorded about the
\* cached handle ends here.
SetClient(c) ==
    /\ ch_client' = c
    /\ cache_failed' = FALSE
    /\ late' = FALSE
Return(t, r) ==
    /\ pc' = [pc EXCEPT ![t] = "idle"]
    /\ result' = IF t = observed THEN r ELSE result
    /\ hb_failed' = IF t = observed THEN NoClient ELSE hb_failed
    /\ late' = IF t = observed THEN FALSE ELSE late
    /\ unavail' = IF t = observed THEN FALSE ELSE unavail
    /\ found_available' = IF t = observed THEN FALSE ELSE found_available
    /\ UNCHANGED observed

\* the frame of a get_sqlite_cursor call ends
CursorEnd(t) ==
    /\ in_cursor' = [in_cursor EXCEPT ![t] = FALSE]
    /\ cur_conn' = [cur_conn EXCEPT ![t] = NoConn]
    /\ leave' = [leave EXCEPT ![t] = "none"]

\* _get_sqlite_conn returns c to its caller: get_connection (line 170), which
\* returns it with is_sqlite = True, or get_sqlite_cursor (line 178)
ConnReturn(t, c) ==
    IF in_cursor[t]
    THEN /\ cur_conn' = [cur_conn EXCEPT ![t] = c]
         /\ Goto(t, "k179")
         /\ UNCHANGED <<result, call, in_cursor, leave, cursor_open>>
    ELSE /\ Return(t, [kind |-> "sqlite", handle |-> c])
         /\ UNCHANGED cur

\* the fields as __init__ (lines 53-69) sets them
InitFields ==
    /\ ch_available = "None"
    /\ ch_client = NoClient
    /\ ch_lock = NoThread
    /\ thread_local = [t \in Threads |-> NoConn]
    /\ sqlite_conns = <<>>
    /\ sqlite_conns_lock = NoThread
    /\ sqlite_closed = {}
    /\ pc = [t \in Threads |-> "idle"]
    /\ attempt = [t \in Threads |-> 0]
    /\ delay = [t \in Threads |-> 0]
    /\ client = [t \in Threads |-> NoClient]
    /\ conn = [t \in Threads |-> NoConn]
    /\ observed = 1
    /\ result = NoResult
    /\ db_exists \in BOOLEAN
    /\ next_client = 1
    /\ next_conn = 1
    /\ hb_failed = NoClient
    /\ late = FALSE
    /\ unavail = FALSE
    /\ found_available = FALSE
    /\ cache_failed = FALSE
    /\ seq_count = 0
    /\ sleeps = <<>>
    /\ closed_last = FALSE
    /\ hb_ever_failed = FALSE
    /\ date_range_cache = NoValue
    /\ date_range_ts = 0
    /\ clock = 0
    /\ now = [t \in Threads |-> 0]
    /\ fetched = [t \in Threads |-> NoValue]
    /\ next_value = 1
    /\ seen = NoEntry
    /\ computed = FALSE
    /\ prev_raised = FALSE
    /\ ts_by = NoValue
    /\ in_cursor = [t \in Threads |-> FALSE]
    /\ cur_conn = [t \in Threads |-> NoConn]
    /\ leave = [t \in Threads |-> "none"]
    /\ cursor_open = {}
    /\ idx = [t \in Threads |-> 0]
    /\ close_raised = {}
    /\ cls_lock = NoThread
    /\ self_ref = [t \in Threads |-> NoInstance]

\* the state after the import of db.manager: the module-level singleton
\* (line 211) has been constructed
Init ==
    /\ InitFields
    /\ instance = 1
    /\ initialized = "True"
    /\ created = 1

\* the state before the first construction (lines 42-43)
InitConstruct ==
    /\ InitFields
    /\ instance = NoInstance
    /\ initialized = "unset"
    /\ created = 0


\* ------------------------------------------------ __new__ and __init__
\* a thread evaluates DatabaseManager()
CallConstruct(t) ==
    /\ pc[t] = "idle"
    /\ Goto(t, "n46")
    /\ result' = IF t = observed THEN NoResult ELSE result
    /\ UNCHANGED <<mgr, pool, locals, env, call, hist, dr, drhist, cur, shut, single>>

\* line 46: if cls._instance is None (else line 51)
N46(t) ==
    /\ pc[t] = "n46"
    /\ IF instance = NoInstance THEN Goto(t, "n47") ELSE Goto(t, "n51")
    /\ UNCHANGED <<mgr, pool, locals, result, env, call, hist, dr, drhist, cur, shut, single>>

\* line 47: with cls._lock (acquire)
N47(t) ==
    /\ pc[t] = "n47"
    /\ cls_lock = NoThread
    /\ cls_lock' = t
    /\ Goto(t, "n48")
    /\ UNCHANGED <<instance, initialized, created, self_ref>>
    /\ UNCHANGED <<mgr, pool, locals, result, env, call, hist, dr, drhist, cur, shut>>

\* line 48: if cls._instance is None (else the with-block ends)
N48(t) ==
    /\ pc[t] = "n48"
    /\ IF instance = NoInstance
       THEN Goto(t, "n49") /\ UNCHANGED cls_lock
       ELSE Goto(t, "n51") /\ cls_lock' = NoThread
    /\ UNCHANGED <<instance, initialized, created, self_ref>>
    /\ UNCHANGED <<mgr, pool, locals, result, env, call, hist, dr, drhist, cur, shut>>

\* line 49: cls._instance = super().__new__(cls): a new object, which has no
\* attribute _initialized yet
N49(t) ==
    /\ pc[t] = "n49"
    /\ created' = created + 1
    /\ instance' = created + 1
    /\ initialized' = "unset"
    /\ Goto(t, "n50")
    /\ UNCHANGED <<cls_lock, self_ref>>
    /\ UNCHANGED <<mgr, pool, locals, result, env, call, hist, dr, drhist, cur, shut>>

\* line 50: cls._instance._initialized = False, and the with-block ends
N50(t) ==
    /\ pc[t] = "n50"
    /\ initialized' = "False"
    /\ cls_lock' = NoThread
    /\ Goto(t, "n51")
    /\ UNCHANGED <<instance, created, self_ref>>
    /\ UNCHANGED <<mgr, pool, locals, result, env, call, hist, dr, drhist, cur, shut>>

\* line 51: return cls._instance; type.__call__ then calls __init__ on it
N51(t) ==
    /\ pc[t] = "n51"
    /\ self_ref' = [self_ref EXCEPT ![t] = instance]
    /\ Goto(t, "i54")
    /\ UNCHANGED <<instance, cls_lock, initialized, created>>
    /\ UNCHANGED <<mgr, pool, locals, result, env, call, hist, dr, drhist, cur, shut>>

\* lines 54-55: if self._initialized: return. Reading the attribute of an
\* object that line 50 has not reached raises AttributeError, which leaves
\* DatabaseManager()
I54(t) ==
    /\ pc[t] = "i54"
    /\ IF initialized = "False"
       THEN /\ Goto(t, "i56")
            /\ UNCHANGED <<result, call, self_ref>>
       ELSE /\ Return(t, IF initialized = "True"
                         THEN [kind |-> "instance", handle |-> self_ref[t]]
                         ELSE [kind |-> "attribute_error", handle |-> 0])
            /\ self_ref' = [self_ref EXCEPT ![t] = NoInstance]
    /\ UNCHANGED <<instance, cls_lock, initialized, created>>
    /\ UNCHANGED <<mgr, pool, locals, env, hist, dr, drhist, cur, shut>>

\* line 56: self._initialized = True
I56(t) ==
    /\ pc[t] = "i56"
    /\ initialized' = "True"
    /\ Goto(t, "i58")
    /\ UNCHANGED <<instance, cls_lock, created, self_ref>>
    /\ UNCHANGED <<mgr, pool, locals, result, env, call, hist, dr, drhist, cur, shut>>

\* lines 58-69: the fields are set, and DatabaseManager() returns self
I58(t) ==
    /\ pc[t] = "i58"
    /\ thread_local' = [u \in Threads |-> NoConn]
    /\ sqlite_conns' = <<>>
    /\ sqlite_conns_lock' = NoThread
    /\ ch_client' = NoClient
    /\ ch_lock' = NoThread
    /\ ch_available' = "None"
    /\ date_range_cache' = NoValue
    /\ date_range_ts' = 0
    /\ Return(t, [kind |-> "instance", handle |-> self_ref[t]])
    /\ self_ref' = [self_ref EXCEPT ![t] = NoInstance]
    /\ UNCHANGED <<instance, cls_lock, initialized, created>>
    /\ UNCHANGED <<sqlite_closed, locals, env, hist, cur, shut>>
    /\ UNCHANGED <<clock, now, fetched, next_value, drhist>>

Construct(t) ==
    \/ CallConstruct(t)
    \/ N46(t) \/ N47(t) \/ N48(t) \/ N49(t) \/ N50(t) \/ N51(t)
    \/ I54(t) \/ I56(t) \/ I58(t)

\* ------------------------------------------------------------ the caller
\* a thread calls db_manager.get_connection() (routers, main.py:52)
CallGetConnection(t) ==
    /\ pc[t] = "idle"
    /\ Goto(t, "g149")
    /\ IF t = observed
       THEN /\ result' = NoResult
            /\ late' = cache_failed
            /\ unavail' = (ch_available = "False" /\ \A u \in Threads : pc[u] \notin ClosePcs)
       ELSE UNCHANGED <<result, late, unavail>>
    /\ closed_last' = FALSE
    /\ UNCHANGED <<mgr, pool, locals, env, observed, hb_failed, found_available>>
    /\ UNCHANGED <<cache_failed, seq_count, sleeps, hb_ever_failed>>
    /\ UNCHANGED <<dr, drhist>>
    /\ UNCHANGED <<cur, shut, single>>

\* a thread calls db_manager.close_all() (main.py:68)
CallCloseAll(t) ==
    /\ pc[t] = "idle"
    /\ Goto(t, "c188")
    /\ result' = IF t = observed THEN NoResult ELSE result
    /\ unavail' = FALSE
    /\ UNCHANGED <<mgr, pool, locals, env, observed, hb_failed, late, found_available, hist>>
    /\ UNCHANGED <<dr, drhist>>
    /\ UNCHANGED <<cur, shut, single>>

\* ------------------------------------------------------- get_connection
\* line 149, left operand: self._ch_available is True
G149(t) ==
    /\ pc[t] = "g149"
    /\ IF ch_available = "True" THEN Goto(t, "g149c") ELSE Goto(t, "g163")
    /\ UNCHANGED <<mgr, pool, locals, result, env, call, hist>>
    /\ UNCHANGED <<dr, drhist>>
    /\ UNCHANGED <<cur, shut, single>>

\* line 149, right operand: self._ch_client is not None
G149c(t) ==
    /\ pc[t] = "g149c"
    /\ IF ch_client # NoClient THEN Goto(t, "g152") ELSE Goto(t, "g163")
    /\ UNCHANGED <<mgr, pool, locals, result, env, call, hist>>
    /\ UNCHANGED <<dr, drhist>>
    /\ UNCHANGED <<cur, shut, single>>

\* G152 without the try/except of lines 150-154: a failed heartbeat leaves
\* get_connection as an exception
G152_Propagates(t) ==
    /\ pc[t] = "g152"
    /\ \/ /\ ch_client # NoClient
          /\ Goto(t, "g153")
          /\ UNCHANGED <<result, hb_failed, late, unavail, observed, found_available>>
          /\ UNCHANGED <<cache_failed, hb_ever_failed>>
       \/ /\ Return(t, [kind |-> "error", handle |-> 0])
          /\ cache_failed' = (ch_client # NoClient)
          /\ hb_ever_failed' = TRUE
    /\ UNCHANGED <<mgr, pool, locals, env>>
    /\ UNCHANGED <<seq_count, sleeps, closed_last>>
    /\ UNCHANGED <<dr, drhist>>
    /\ UNCHANGED <<cur, shut, single>>

\* line 152: the heartbeat on self._ch_client. The backend answers or not; a
\* None client raises AttributeError. Every exception goes to line 154.
G152(t) ==
    /\ pc[t] = "g152"
    /\ \/ /\ ch_client # NoClient
          /\ Goto(t, "g153")
          /\ UNCHANGED <<hb_failed, cache_failed, hb_ever_failed>>
       \/ /\ ch_client # NoClient
          /\ Goto(t, "g156")
          /\ cache_failed' = TRUE
          /\ hb_ever_failed' = TRUE
          /\ hb_failed' = IF t = observed THEN ch_client ELSE hb_failed
       \/ /\ ch_client = NoClient
          /\ Goto(t, "g156")
          /\ UNCHANGED <<hb_failed, cache_failed, hb_ever_failed>>
    /\ UNCHANGED <<mgr, pool, locals, result, env, observed, late, unavail, found_available>>
    /\ UNCHANGED <<seq_count, sleeps, closed_last>>
    /\ UNCHANGED <<dr, drhist>>
    /\ UNCHANGED <<cur, shut, single>>

\* line 153: return self._ch_client, False
G153(t) ==
    /\ pc[t] = "g153"
    /\ Return(t, [kind |-> "primary", handle |-> ch_client])
    /\ UNCHANGED <<mgr, pool, locals, env, hist>>
    /\ UNCHANGED <<dr, drhist>>
    /\ UNCHANGED <<cur, shut, single>>

\* ChLockFree for a lock that never blocks
ChLockNeverBlocks == TRUE

\* threading.Lock.acquire of _ch_lock: blocks while another thread holds it
ChLockFree == ch_lock = NoThread

\* G156 with the heartbeat error swallowed: the cached client is returned
G156_IgnoreFailure(t) ==
    /\ pc[t] = "g156"
    /\ Return(t, [kind |-> "primary", handle |-> ch_client])
    /\ UNCHANGED <<mgr, pool, locals, env, hist>>
    /\ UNCHANGED <<dr, drhist>>
    /\ UNCHANGED <<cur, shut, single>>

\* line 156: with self._ch_lock (acquire)
G156(t) ==
    /\ pc[t] = "g156"
    /\ ChLockFree
    /\ ch_lock' = t
    /\ Goto(t, "g158")
    /\ UNCHANGED <<ch_available, ch_client>>
    /\ UNCHANGED <<pool, locals, result, env, call, hist>>
    /\ UNCHANGED <<dr, drhist>>
    /\ UNCHANGED <<cur, shut, single>>

\* G158 without the check under the lock: the reset is unconditional
G158_NoRecheck(t) ==
    /\ pc[t] = "g158"
    /\ Goto(t, "g159")
    /\ UNCHANGED <<mgr, pool, locals, result, env, call, hist>>
    /\ UNCHANGED <<dr, drhist>>
    /\ UNCHANGED <<cur, shut, single>>

\* G158 with the lock taken by acquire() and released only after the reset:
\* a call that finds the flag changed leaves the block holding the lock
G158_KeepsLock(t) ==
    /\ pc[t] = "g158"
    /\ IF ch_available = "True" THEN Goto(t, "g159") ELSE Goto(t, "g163")
    /\ UNCHANGED <<mgr, pool, locals, result, env, call, hist>>
    /\ UNCHANGED <<dr, drhist>>
    /\ UNCHANGED <<cur, shut, single>>

\* line 158: if self._ch_available is True (else the with-block ends)
G158(t) ==
    /\ pc[t] = "g158"
    /\ IF ch_available = "True"
       THEN Goto(t, "g159") /\ UNCHANGED ch_lock
       ELSE Goto(t, "g163") /\ ch_lock' = NoThread
    /\ UNCHANGED <<ch_available, ch_client>>
    /\ UNCHANGED <<pool, locals, result, env, call, hist>>
    /\ UNCHANGED <<dr, drhist>>
    /\ UNCHANGED <<cur, shut, single>>

\* line 159: self._ch_client = None
G159(t) ==
    /\ pc[t] = "g159"
    /\ SetClient(NoClient)
    /\ Goto(t, "g160")
    /\ UNCHANGED <<ch_available, ch_lock>>
    /\ UNCHANGED <<pool, locals, result, env, observed, hb_failed, unavail, found_available>>
    /\ UNCHANGED <<seq_count, sleeps, closed_last, hb_ever_failed>>
    /\ UNCHANGED <<dr, drhist>>
    /\ UNCHANGED <<cur, shut, single>>

\* line 160: self._ch_available = None, and the with-block ends
G160(t) ==
    /\ pc[t] = "g160"
    /\ ch_available' = "None"
    /\ seq_count' = 0
    /\ ch_lock' = NoThread
    /\ Goto(t, "g163")
    /\ UNCHANGED ch_client
    /\ UNCHANGED <<pool, locals, result, env, call>>
    /\ UNCHANGED <<cache_failed, sleeps, closed_last, hb_ever_failed>>
    /\ UNCHANGED <<dr, drhist>>
    /\ UNCHANGED <<cur, shut, single>>

\* G163 testing "is not True": a False flag is probed again
G163_RetryUnlessTrue(t) ==
    /\ pc[t] = "g163"
    /\ IF ch_available # "True" THEN Goto(t, "g164") ELSE Goto(t, "s121")
    /\ UNCHANGED <<mgr, pool, locals, result, env, call, hist>>
    /\ UNCHANGED <<dr, drhist>>
    /\ UNCHANGED <<cur, shut, single>>

\* line 163: if self._ch_available is None (else line 170)
G163(t) ==
    /\ pc[t] = "g163"
    /\ IF ch_available = "None" THEN Goto(t, "g164") ELSE Goto(t, "s121")
    /\ UNCHANGED <<mgr, pool, locals, result, env, call, hist>>
    /\ UNCHANGED <<dr, drhist>>
    /\ UNCHANGED <<cur, shut, single>>

\* G164 with a non-blocking acquire: a busy lock sends the caller to line 170
G164_TryLock(t) ==
    /\ pc[t] = "g164"
    /\ IF ChLockFree
       THEN Goto(t, "g165") /\ ch_lock' = t
       ELSE Goto(t, "s121") /\ UNCHANGED ch_lock
    /\ UNCHANGED <<ch_available, ch_client>>
    /\ UNCHANGED <<pool, locals, result, env, call, hist>>
    /\ UNCHANGED <<dr, drhist>>
    /\ UNCHANGED <<cur, shut, single>>

\* line 164: with self._ch_lock (acquire)
G164(t) ==
    /\ pc[t] = "g164"
    /\ ChLockFree
    /\ ch_lock' = t
    /\ Goto(t, "g165")
    /\ UNCHANGED <<ch_available, ch_client>>
    /\ UNCHANGED <<pool, locals, result, env, call, hist>>
    /\ UNCHANGED <<dr, drhist>>
    /\ UNCHANGED <<cur, shut, single>>

\* Recheck165 without the double check: the sequence runs whatever the flag
Recheck165_Skipped == TRUE

\* line 165: the double check under the lock
Recheck165 == ch_available = "None"

\* G165 with the call leaving through line 167 whenever the flag is True
\* after the with-block's test: the cached client is returned
G165_UsePrimary(t) ==
    /\ pc[t] = "g165"
    /\ IF Recheck165
       THEN /\ Goto(t, "t93")
            /\ attempt' = [attempt EXCEPT ![t] = 1]
            /\ delay' = [delay EXCEPT ![t] = CH_RETRY_BASE_DELAY]
            /\ seq_count' = IF seq_count < SeqCap THEN seq_count + 1 ELSE seq_count
            /\ sleeps' = <<>>
            /\ UNCHANGED <<ch_lock, found_available>>
       ELSE /\ IF ch_available = "True"
               THEN Goto(t, "g167") /\ UNCHANGED ch_lock
               ELSE Goto(t, "s121") /\ ch_lock' = NoThread
            /\ found_available' = IF t = observed
                                  THEN ch_available = "True"
                                  ELSE found_available
            /\ UNCHANGED <<attempt, delay, seq_count, sleeps>>
    /\ UNCHANGED <<ch_available, ch_client>>
    /\ UNCHANGED <<pool, client, conn, result, env>>
    /\ UNCHANGED <<observed, hb_failed, late, unavail>>
    /\ UNCHANGED <<cache_failed, closed_last, hb_ever_failed>>
    /\ UNCHANGED <<dr, drhist>>
    /\ UNCHANGED <<cur, shut, single>>

\* lines 165-166: if still None, call _try_clickhouse_with_retry (line 89:
\* delay = CH_RETRY_BASE_DELAY, line 90: attempt = 1); else leave the block
G165(t) ==
    /\ pc[t] = "g165"
    /\ IF Recheck165
       THEN /\ Goto(t, "t93")
            /\ attempt' = [attempt EXCEPT ![t] = 1]
            /\ delay' = [delay EXCEPT ![t] = CH_RETRY_BASE_DELAY]
            /\ seq_count' = IF seq_count < SeqCap THEN seq_count + 1 ELSE seq_count
            /\ sleeps' = <<>>
            /\ UNCHANGED ch_lock
            /\ UNCHANGED found_available
       ELSE /\ Goto(t, "s121")
            /\ ch_lock' = NoThread
            /\ found_available' = IF t = observed
                                  THEN ch_available = "True"
                                  ELSE found_available
            /\ UNCHANGED <<attempt, delay, seq_count, sleeps>>
    /\ UNCHANGED <<ch_available, ch_client>>
    /\ UNCHANGED <<pool, client, conn, result, env>>
    /\ UNCHANGED <<observed, hb_failed, late, unavail>>
    /\ UNCHANGED <<cache_failed, closed_last, hb_ever_failed>>
    /\ UNCHANGED <<dr, drhist>>
    /\ UNCHANGED <<cur, shut, single>>

\* line 167: return self._ch_client, False (leaving the with-block)
G167(t) ==
    /\ pc[t] = "g167"
    /\ Return(t, [kind |-> "primary", handle |-> ch_client])
    /\ ch_lock' = NoThread
    /\ UNCHANGED <<ch_available, ch_client>>
    /\ UNCHANGED <<pool, locals, env, hist>>
    /\ UNCHANGED <<dr, drhist>>
    /\ UNCHANGED <<cur, shut, single>>

\* --------------------------------------------- _try_clickhouse_with_retry
\* T93 with the test of line 108 off by one: a sleep and an attempt more
T93_OneMoreAttempt(t) ==
    /\ pc[t] = "t93"
    /\ \/ /\ next_client <= MaxClients
          /\ client' = [client EXCEPT ![t] = next_client]
          /\ next_client' = next_client + 1
          /\ Goto(t, "t98")
       \/ /\ IF attempt[t] <= CH_MAX_RETRIES THEN Goto(t, "t109") ELSE Goto(t, "t112")
          /\ UNCHANGED <<client, next_client>>
    /\ UNCHANGED <<mgr, pool, attempt, delay, conn, result, db_exists, next_conn, call, hist>>
    /\ UNCHANGED <<dr, drhist>>
    /\ UNCHANGED <<cur, shut, single>>

\* lines 92-97: get_client(...) and client.query("SELECT 1"); lines 103-108:
\* either raising goes to the except handler, which sleeps again if
\* attempt < CH_MAX_RETRIES and else leaves the loop
T93(t) ==
    /\ pc[t] = "t93"
    /\ \/ /\ next_client <= MaxClients
          /\ client' = [client EXCEPT ![t] = next_client]
          /\ next_client' = next_client + 1
          /\ Goto(t, "t98")
       \/ /\ IF attempt[t] < CH_MAX_RETRIES THEN Goto(t, "t109") ELSE Goto(t, "t112")
          /\ UNCHANGED <<client, next_client>>
    /\ UNCHANGED <<mgr, pool, attempt, delay, conn, result, db_exists, next_conn, call, hist>>
    /\ UNCHANGED <<dr, drhist>>
    /\ UNCHANGED <<cur, shut, single>>

\* line 98: self._ch_client = client
T98(t) ==
    /\ pc[t] = "t98"
    /\ SetClient(client[t])
    /\ Goto(t, "t99")
    /\ UNCHANGED <<ch_available, ch_lock>>
    /\ UNCHANGED <<pool, locals, result, env, observed, hb_failed, unavail, found_available>>
    /\ UNCHANGED <<seq_count, sleeps, closed_last, hb_ever_failed>>
    /\ UNCHANGED <<dr, drhist>>
    /\ UNCHANGED <<cur, shut, single>>

\* T99 without the assignment: the flag stays None after a success
T99_FlagUnset(t) ==
    /\ pc[t] = "t99"
    /\ Goto(t, "t100")
    /\ UNCHANGED <<mgr, pool, locals, result, env, call, hist>>
    /\ UNCHANGED <<dr, drhist>>
    /\ UNCHANGED <<cur, shut, single>>

\* line 99: self._ch_available = True
T99(t) ==
    /\ pc[t] = "t99"
    /\ ch_available' = "True"
    /\ Goto(t, "t100")
    /\ UNCHANGED <<ch_client, ch_lock>>
    /\ UNCHANGED <<pool, locals, result, env, call, hist>>
    /\ UNCHANGED <<dr, drhist>>
    /\ UNCHANGED <<cur, shut, single>>

\* lines 100-102: (the backend type is noted and logged) return True
T100(t) ==
    /\ pc[t] = "t100"
    /\ Goto(t, "g167")
    /\ attempt' = [attempt EXCEPT ![t] = 0]
    /\ delay' = [delay EXCEPT ![t] = 0]
    /\ client' = [client EXCEPT ![t] = NoClient]
    /\ sleeps' = <<>>
    /\ UNCHANGED <<mgr, pool, conn, result, env, call>>
    /\ UNCHANGED <<cache_failed, seq_count, closed_last, hb_ever_failed>>
    /\ UNCHANGED <<dr, drhist>>
    /\ UNCHANGED <<cur, shut, single>>

\* T109 with a linear backoff: delay += CH_RETRY_BACKOFF
T109_Additive(t) ==
    /\ pc[t] = "t109"
    /\ delay' = [delay EXCEPT ![t] = delay[t] + CH_RETRY_BACKOFF]
    /\ attempt' = [attempt EXCEPT ![t] = attempt[t] + 1]
    /\ sleeps' = Append(sleeps, delay[t])
    /\ Goto(t, "t93")
    /\ UNCHANGED <<mgr, pool, client, conn, result, env, call>>
    /\ UNCHANGED <<cache_failed, seq_count, closed_last, hb_ever_failed>>
    /\ UNCHANGED <<dr, drhist>>
    /\ UNCHANGED <<cur, shut, single>>

\* lines 109-110: time.sleep(delay); delay *= CH_RETRY_BACKOFF; next attempt
T109(t) ==
    /\ pc[t] = "t109"
    /\ delay' = [delay EXCEPT ![t] = delay[t] * CH_RETRY_BACKOFF]
    /\ attempt' = [attempt EXCEPT ![t] = attempt[t] + 1]
    /\ sleeps' = Append(sleeps, delay[t])
    /\ Goto(t, "t93")
    /\ UNCHANGED <<mgr, pool, client, conn, result, env, call>>
    /\ UNCHANGED <<cache_failed, seq_count, closed_last, hb_ever_failed>>
    /\ UNCHANGED <<dr, drhist>>
    /\ UNCHANGED <<cur, shut, single>>

\* T112 without the negative result cached: the flag is left None
T112_NoNegativeCache(t) ==
    /\ pc[t] = "t112"
    /\ ch_lock' = NoThread
    /\ Goto(t, "s121")
    /\ attempt' = [attempt EXCEPT ![t] = 0]
    /\ delay' = [delay EXCEPT ![t] = 0]
    /\ UNCHANGED <<ch_available, ch_client>>
    /\ sleeps' = <<>>
    /\ UNCHANGED <<pool, client, conn, result, env, call>>
    /\ UNCHANGED <<cache_failed, seq_count, closed_last, hb_ever_failed>>
    /\ UNCHANGED <<dr, drhist>>
    /\ UNCHANGED <<cur, shut, single>>

\* lines 112-114: self._ch_available = False; return False; get_connection
\* leaves its with-block (line 166 is false) and goes to line 170
T112(t) ==
    /\ pc[t] = "t112"
    /\ ch_available' = "False"
    /\ ch_lock' = NoThread
    /\ Goto(t, "s121")
    /\ attempt' = [attempt EXCEPT ![t] = 0]
    /\ delay' = [delay EXCEPT ![t] = 0]
    /\ UNCHANGED ch_client
    /\ sleeps' = <<>>
    /\ UNCHANGED <<pool, client, conn, result, env, call>>
    /\ UNCHANGED <<cache_failed, seq_count, closed_last, hb_ever_failed>>
    /\ UNCHANGED <<dr, drhist>>
    /\ UNCHANGED <<cur, shut, single>>

\* LocalConn with one connection cached for all threads
SharedConn(t) == IF Len(sqlite_conns) > 0 THEN sqlite_conns[1] ELSE NoConn

\* ------------------------------------------------------- _get_sqlite_conn
\* line 121: getattr(self._thread_local, 'sqlite_conn', None)
LocalConn(t) == thread_local[t]

\* lines 121-123: return the thread's cached connection if there is one
S121(t) ==
    /\ pc[t] = "s121"
    /\ IF LocalConn(t) # NoConn
       THEN ConnReturn(t, LocalConn(t))
       ELSE Goto(t, "s125") /\ UNCHANGED <<result, call, cur>>
    /\ UNCHANGED <<mgr, pool, locals, env, hist>>
    /\ UNCHANGED <<dr, drhist>>
    /\ UNCHANGED <<shut, single>>

\* S125 without the test of line 125: sqlite3.connect creates the file
S125_NoExistsCheck(t) ==
    /\ pc[t] = "s125"
    /\ conn' = [conn EXCEPT ![t] = next_conn]
    /\ next_conn' = next_conn + 1
    /\ thread_local' = [thread_local EXCEPT ![t] = next_conn]
    /\ Goto(t, "s135")
    /\ UNCHANGED <<result, call>>
    /\ UNCHANGED <<sqlite_conns, sqlite_conns_lock, sqlite_closed>>
    /\ UNCHANGED <<mgr, attempt, delay, client, db_exists, next_client, hist>>
    /\ UNCHANGED <<dr, drhist>>
    /\ UNCHANGED <<cur, shut, single>>

\* lines 125-132: raise if the database file does not exist; else
\* conn = sqlite3.connect(SQLITE_DB), its pragmas, and
\* self._thread_local.sqlite_conn = conn
S125(t) ==
    /\ pc[t] = "s125"
    /\ IF db_exists
       THEN /\ conn' = [conn EXCEPT ![t] = next_conn]
            /\ next_conn' = next_conn + 1
            /\ thread_local' = [thread_local EXCEPT ![t] = next_conn]
            /\ Goto(t, "s135")
            /\ UNCHANGED <<result, call, cur>>
       ELSE /\ Return(t, [kind |-> "error", handle |-> 0])
            /\ CursorEnd(t)
            /\ UNCHANGED <<conn, next_conn, thread_local, cursor_open>>
    /\ UNCHANGED <<sqlite_conns, sqlite_conns_lock, sqlite_closed>>
    /\ UNCHANGED <<mgr, attempt, delay, client, db_exists, next_client, hist>>
    /\ UNCHANGED <<dr, drhist>>
    /\ UNCHANGED <<shut, single>>

\* S135 without mutual exclusion: the append does not wait for the lock
S135_NoLock(t) ==
    /\ pc[t] = "s135"
    /\ sqlite_conns_lock' = t
    /\ Goto(t, "s136")
    /\ UNCHANGED <<thread_local, sqlite_conns, sqlite_closed>>
    /\ UNCHANGED <<mgr, locals, result, env, call, hist>>
    /\ UNCHANGED <<dr, drhist>>
    /\ UNCHANGED <<cur, shut, single>>

\* line 135: with self._sqlite_conns_lock (acquire)
S135(t) ==
    /\ pc[t] = "s135"
    /\ sqlite_conns_lock = NoThread
    /\ sqlite_conns_lock' = t
    /\ Goto(t, "s136")
    /\ UNCHANGED <<thread_local, sqlite_conns, sqlite_closed>>
    /\ UNCHANGED <<mgr, locals, result, env, call, hist>>
    /\ UNCHANGED <<dr, drhist>>
    /\ UNCHANGED <<cur, shut, single>>

\* lines 136-141: self._sqlite_conns.append(conn), the with-block ends,
\* (the backend type is noted and logged) return conn to the caller
S136(t) ==
    /\ pc[t] = "s136"
    /\ sqlite_conns' = Append(sqlite_conns, conn[t])
    /\ sqlite_conns_lock' = NoThread
    /\ ConnReturn(t, conn[t])
    /\ conn' = [conn EXCEPT ![t] = NoConn]
    /\ UNCHANGED <<thread_local, sqlite_closed>>
    /\ UNCHANGED <<mgr, attempt, delay, client, env, hist>>
    /\ UNCHANGED <<dr, drhist>>
    /\ UNCHANGED <<shut, single>>

\* ------------------------------------------------------ get_sqlite_cursor
\* a thread enters `with db_manager.get_sqlite_cursor() as cursor`
\* (sales_dao.py:16, user_dao.py:20, main.py:54); line 178 calls
\* _get_sqlite_conn
CallGetSqliteCursor(t) ==
    /\ pc[t] = "idle"
    /\ Goto(t, "s121")
    /\ in_cursor' = [in_cursor EXCEPT ![t] = TRUE]
    /\ result' = IF t = observed THEN NoResult ELSE result
    /\ closed_last' = FALSE
    /\ UNCHANGED <<mgr, pool, locals, env, call>>
    /\ UNCHANGED <<cache_failed, seq_count, sleeps, hb_ever_failed>>
    /\ UNCHANGED <<cur_conn, leave, cursor_open>>
    /\ UNCHANGED <<dr, drhist, shut, single>>

\* line 179: cursor = conn.cursor(); sqlite3 raises ProgrammingError on a
\* connection that has been closed, and nothing is yielded
K179(t) ==
    /\ pc[t] = "k179"
    /\ IF cur_conn[t] \in sqlite_closed
       THEN /\ Return(t, [kind |-> "unusable", handle |-> cur_conn[t]])
            /\ CursorEnd(t)
            /\ UNCHANGED cursor_open
       ELSE /\ cursor_open' = cursor_open \cup {t}
            /\ Goto(t, "k181")
            /\ UNCHANGED <<result, call, in_cursor, cur_conn, leave>>
    /\ UNCHANGED <<mgr, pool, locals, env, hist>>
    /\ UNCHANGED <<dr, drhist, shut, single>>

\* line 181: yield cursor; the with-block of the caller runs and is left by
\* falling off its end, by an exception, or by a return statement
K181(t) ==
    /\ pc[t] = "k181"
    /\ \E m \in {"normal", "exception", "return"} :
          leave' = [leave EXCEPT ![t] = m]
    /\ Goto(t, "k183")
    /\ UNCHANGED <<in_cursor, cur_conn, cursor_open>>
    /\ UNCHANGED <<mgr, pool, locals, result, env, call, hist>>
    /\ UNCHANGED <<dr, drhist, shut, single>>

\* K183 with the close after the yield instead of in a finally clause: it is
\* skipped when the with-block raises
K183_NoFinally(t) ==
    /\ pc[t] = "k183"
    /\ cursor_open' = IF leave[t] = "exception" THEN cursor_open ELSE cursor_open \ {t}
    /\ Return(t, [kind |-> IF leave[t] = "exception" THEN "raise" ELSE "cursor",
                  handle |-> cur_conn[t]])
    /\ CursorEnd(t)
    /\ UNCHANGED <<mgr, pool, locals, env, hist>>
    /\ UNCHANGED <<dr, drhist, shut, single>>

\* lines 182-183: finally: cursor.close(); the exception, if any, goes on to
\* the caller
K183(t) ==
    /\ pc[t] = "k183"
    /\ cursor_open' = cursor_open \ {t}
    /\ Return(t, [kind |-> IF leave[t] = "exception" THEN "raise" ELSE "cursor",
                  handle |-> cur_conn[t]])
    /\ CursorEnd(t)
    /\ UNCHANGED <<mgr, pool, locals, env, hist>>
    /\ UNCHANGED <<dr, drhist, shut, single>>

GetSqliteCursorBody(t) == K179(t) \/ K181(t) \/ K183(t)

\* -------------------------------------------------------------- close_all
\* line 188: with self._sqlite_conns_lock (acquire)
C188(t) ==
    /\ pc[t] = "c188"
    /\ sqlite_conns_lock = NoThread
    /\ sqlite_conns_lock' = t
    /\ Goto(t, "c189")
    /\ UNCHANGED <<thread_local, sqlite_conns, sqlite_closed>>
    /\ UNCHANGED <<mgr, locals, result, env, call, hist>>
    /\ UNCHANGED <<dr, drhist>>
    /\ UNCHANGED <<cur, shut, single>>

\* line 189: for conn in self._sqlite_conns: the next tracked connection,
\* or the end of the loop
C189(t) ==
    /\ pc[t] = "c189"
    /\ IF idx[t] < Len(sqlite_conns)
       THEN idx' = [idx EXCEPT ![t] = idx[t] + 1] /\ Goto(t, "c191")
       ELSE UNCHANGED idx /\ Goto(t, "c194")
    /\ UNCHANGED close_raised
    /\ UNCHANGED <<mgr, pool, locals, result, env, call, hist>>
    /\ UNCHANGED <<dr, drhist>>
    /\ UNCHANGED <<cur, single>>

\* C191 with no try/except around the close: the error leaves close_all (and
\* its with-block, which releases the lock)
C191_Propagates(t) ==
    /\ pc[t] = "c191"
    /\ \/ /\ sqlite_closed' = sqlite_closed \cup {sqlite_conns[idx[t]]}
          /\ Goto(t, "c189")
          /\ UNCHANGED <<close_raised, idx, sqlite_conns_lock, result, call>>
       \/ /\ close_raised' = close_raised \cup {sqlite_conns[idx[t]]}
          /\ sqlite_conns_lock' = NoThread
          /\ idx' = [idx EXCEPT ![t] = 0]
          /\ Return(t, [kind |-> "raise", handle |-> 0])
          /\ UNCHANGED sqlite_closed
    /\ UNCHANGED <<thread_local, sqlite_conns>>
    /\ UNCHANGED <<mgr, locals, env, hist>>
    /\ UNCHANGED <<dr, drhist>>
    /\ UNCHANGED <<cur, single>>

\* lines 190-193: conn.close(); it closes the connection, or raises (sqlite3
\* does for a connection in use, or one created by another thread) and the
\* error is dropped by `except Exception: pass`
C191(t) ==
    /\ pc[t] = "c191"
    /\ \/ /\ sqlite_closed' = sqlite_closed \cup {sqlite_conns[idx[t]]}
          /\ UNCHANGED close_raised
       \/ /\ close_raised' = close_raised \cup {sqlite_conns[idx[t]]}
          /\ UNCHANGED sqlite_closed
    /\ Goto(t, "c189")
    /\ UNCHANGED <<thread_local, sqlite_conns, sqlite_conns_lock, idx>>
    /\ UNCHANGED <<mgr, locals, result, env, call, hist>>
    /\ UNCHANGED <<dr, drhist>>
    /\ UNCHANGED <<cur, single>>

\* line 194: self._sqlite_conns.clear(), and the with-block ends
C194(t) ==
    /\ pc[t] = "c194"
    /\ sqlite_conns' = <<>>
    /\ sqlite_conns_lock' = NoThread
    /\ idx' = [idx EXCEPT ![t] = 0]
    /\ Goto(t, "c196")
    /\ UNCHANGED <<thread_local, sqlite_closed, close_raised>>
    /\ UNCHANGED <<mgr, locals, result, env, call, hist>>
    /\ UNCHANGED <<dr, drhist>>
    /\ UNCHANGED <<cur, single>>

\* line 196: if self._ch_client is not None
C196(t) ==
    /\ pc[t] = "c196"
    /\ IF ch_client # NoClient THEN Goto(t, "c198") ELSE Goto(t, "c206")
    /\ UNCHANGED <<mgr, pool, locals, result, env, call, hist>>
    /\ UNCHANGED <<dr, drhist>>
    /\ UNCHANGED <<cur, shut, single>>

\* lines 197-203: close or disconnect the client, errors ignored
C198(t) ==
    /\ pc[t] = "c198"
    /\ Goto(t, "c204")
    /\ UNCHANGED <<mgr, pool, locals, result, env, call, hist>>
    /\ UNCHANGED <<dr, drhist>>
    /\ UNCHANGED <<cur, shut, single>>

\* line 204: self._ch_client = None
C204(t) ==
    /\ pc[t] = "c204"
    /\ SetClient(NoClient)
    /\ Goto(t, "c206")
    /\ UNCHANGED <<ch_available, ch_lock>>
    /\ UNCHANGED <<pool, locals, result, env, observed, hb_failed, unavail, found_available>>
    /\ UNCHANGED <<seq_count, sleeps, closed_last, hb_ever_failed>>
    /\ UNCHANGED <<dr, drhist>>
    /\ UNCHANGED <<cur, shut, single>>

\* C206 with line 206 inverting the flag: a None flag is left decided
C206_Invert(t) ==
    /\ pc[t] = "c206"
    /\ ch_available' = IF ch_available = "None" THEN "False" ELSE "None"
    /\ seq_count' = 0
    /\ closed_last' = TRUE
    /\ initialized' = "False"
    /\ Return(t, [kind |-> "closed", handle |-> 0])
    /\ UNCHANGED <<ch_client, ch_lock>>
    /\ UNCHANGED <<pool, locals, env, cache_failed, sleeps, hb_ever_failed>>
    /\ UNCHANGED <<dr, drhist>>
    /\ UNCHANGED <<cur, shut, instance, cls_lock, created, self_ref>>

\* lines 206-207: self._ch_available = None; self._initialized = False;
\* and close_all returns
C206(t) ==
    /\ pc[t] = "c206"
    /\ ch_available' = "None"
    /\ seq_count' = 0
    /\ closed_last' = TRUE
    /\ initialized' = "False"
    /\ Return(t, [kind |-> "closed", handle |-> 0])
    /\ UNCHANGED <<ch_client, ch_lock>>
    /\ UNCHANGED <<pool, locals, env, cache_failed, sleeps, hb_ever_failed>>
    /\ UNCHANGED <<dr, drhist>>
    /\ UNCHANGED <<cur, shut, instance, cls_lock, created, self_ref>>

\* -------------------------------------------------- get_date_range_cached
\* a thread calls fetch_date_range (user_dao.py:43)
CallDateRange(t) ==
    /\ pc[t] = "idle"
    /\ Goto(t, "d76")
    /\ result' = IF t = observed THEN NoResult ELSE result
    /\ UNCHANGED <<mgr, pool, locals, env, call, hist, dr, drhist>>
    /\ UNCHANGED <<cur, shut, single>>

\* the end of a get_date_range_cached call: it returns or raises r
DateReturn(t, r) ==
    /\ Return(t, r)
    /\ now' = [now EXCEPT ![t] = 0]
    /\ fetched' = [fetched EXCEPT ![t] = NoValue]
    /\ prev_raised' = (r.kind = "raise")
    /\ seen' = IF t = observed THEN NoEntry ELSE seen
    /\ computed' = IF t = observed THEN FALSE ELSE computed

\* line 76: now = time.time()
D76(t) ==
    /\ pc[t] = "d76"
    /\ now' = [now EXCEPT ![t] = clock]
    /\ seen' = IF t = observed
               THEN [cache |-> date_range_cache, ts |-> date_range_ts]
               ELSE seen
    /\ Goto(t, "d77")
    /\ UNCHANGED <<date_range_cache, date_range_ts, clock, fetched, next_value>>
    /\ UNCHANGED <<computed, prev_raised, ts_by>>
    /\ UNCHANGED <<mgr, pool, locals, result, env, call, hist>>
    /\ UNCHANGED <<cur, shut, single>>

\* line 77, left operand: self._date_range_cache (a fetched tuple is truthy)
D77(t) ==
    /\ pc[t] = "d77"
    /\ IF date_range_cache # NoValue THEN Goto(t, "d77c") ELSE Goto(t, "d79")
    /\ UNCHANGED <<mgr, pool, locals, result, env, call, hist, dr, drhist>>
    /\ UNCHANGED <<cur, shut, single>>

\* Unexpired with the age of the entry ignored
Unexpired_NoTtl(t) == TRUE

\* line 77, right operand: (now - self._date_range_ts) < self._date_range_ttl
Unexpired(t) == now[t] - date_range_ts < DATE_RANGE_TTL

\* D77c with an inclusive comparison: an entry of age ttl is still served
D77c_Inclusive(t) ==
    /\ pc[t] = "d77c"
    /\ IF now[t] - date_range_ts <= DATE_RANGE_TTL THEN Goto(t, "d78") ELSE Goto(t, "d79")
    /\ UNCHANGED <<mgr, pool, locals, result, env, call, hist, dr, drhist>>
    /\ UNCHANGED <<cur, shut, single>>

\* line 77, right operand, and the branch: line 78 or line 79
D77c(t) ==
    /\ pc[t] = "d77c"
    /\ IF Unexpired(t) THEN Goto(t, "d78") ELSE Goto(t, "d79")
    /\ UNCHANGED <<mgr, pool, locals, result, env, call, hist, dr, drhist>>
    /\ UNCHANGED <<cur, shut, single>>

\* line 78: return self._date_range_cache
D78(t) ==
    /\ pc[t] = "d78"
    /\ DateReturn(t, [kind |-> "date", handle |-> date_range_cache])
    /\ UNCHANGED <<date_range_cache, date_range_ts, clock, next_value, ts_by>>
    /\ UNCHANGED <<mgr, pool, locals, env, hist>>
    /\ UNCHANGED <<cur, shut, single>>

\* D79 with the failure cached: the entry is stamped as refreshed at `now`
D79_NegativeCache(t) ==
    /\ pc[t] = "d79"
    /\ \/ /\ next_value <= MaxRefresh
          /\ fetched' = [fetched EXCEPT ![t] = next_value]
          /\ next_value' = next_value + 1
          /\ computed' = IF t = observed THEN TRUE ELSE computed
          /\ Goto(t, "d80")
          /\ UNCHANGED <<now, seen, prev_raised, result, call, date_range_ts>>
       \/ /\ DateReturn(t, [kind |-> "raise", handle |-> 0])
          /\ date_range_ts' = now[t]
          /\ UNCHANGED next_value
    /\ UNCHANGED <<date_range_cache, clock, ts_by>>
    /\ UNCHANGED <<mgr, pool, locals, env, hist>>
    /\ UNCHANGED <<cur, shut, single>>

\* line 79: result = fetch_impl_func(db, is_sqlite): a new tuple, or the
\* query raises and the exception leaves get_date_range_cached
D79(t) ==
    /\ pc[t] = "d79"
    /\ \/ /\ next_value <= MaxRefresh
          /\ fetched' = [fetched EXCEPT ![t] = next_value]
          /\ next_value' = next_value + 1
          /\ computed' = IF t = observed THEN TRUE ELSE computed
          /\ Goto(t, "d80")
          /\ UNCHANGED <<now, seen, prev_raised, result, call>>
       \/ /\ DateReturn(t, [kind |-> "raise", handle |-> 0])
          /\ UNCHANGED next_value
    /\ UNCHANGED <<date_range_cache, date_range_ts, clock, ts_by>>
    /\ UNCHANGED <<mgr, pool, locals, env, hist>>
    /\ UNCHANGED <<cur, shut, single>>

\* line 80: self._date_range_cache = result
D80(t) ==
    /\ pc[t] = "d80"
    /\ date_range_cache' = fetched[t]
    /\ Goto(t, "d81")
    /\ UNCHANGED <<date_range_ts, clock, now, fetched, next_value>>
    /\ UNCHANGED <<mgr, pool, locals, result, env, call, hist, drhist>>
    /\ UNCHANGED <<cur, shut, single>>

\* lines 81-82: self._date_range_ts = now; return result
D81(t) ==
    /\ pc[t] = "d81"
    /\ date_range_ts' = now[t]
    /\ ts_by' = fetched[t]
    /\ DateReturn(t, [kind |-> "date", handle |-> fetched[t]])
    /\ UNCHANGED <<date_range_cache, clock, next_value>>
    /\ UNCHANGED <<mgr, pool, locals, env, hist>>
    /\ UNCHANGED <<cur, shut, single>>

\* time passes
Tick ==
    /\ \E d \in TickSteps :
          /\ clock + d <= MaxClock
          /\ clock' = clock + d
    /\ UNCHANGED <<date_range_cache, date_range_ts, now, fetched, next_value>>
    /\ UNCHANGED <<mgr, pool, pc, locals, result, env, call, hist, drhist>>
    /\ UNCHANGED <<cur, shut, single>>

DateRangeBody(t) ==
    \/ D76(t) \/ D77(t) \/ D77c(t) \/ D78(t) \/ D79(t) \/ D80(t) \/ D81(t)

DateRange(t) == CallDateRange(t) \/ DateRangeBody(t)



\* ------------------------------------------------------------------ Next
GetConnectionBody(t) ==
    \/ G149(t) \/ G149c(t) \/ G152(t) \/ G153(t)
    \/ G156(t) \/ G158(t) \/ G159(t) \/ G160(t)
    \/ G163(t) \/ G164(t) \/ G165(t) \/ G167(t)
    \/ T93(t) \/ T98(t) \/ T99(t) \/ T100(t) \/ T109(t) \/ T112(t)
    \/ S121(t) \/ S125(t) \/ S135(t) \/ S136(t)

GetConnection(t) == CallGetConnection(t) \/ GetConnectionBody(t)

CloseAllBody(t) ==
    \/ C188(t) \/ C189(t) \/ C191(t) \/ C194(t)
    \/ C196(t) \/ C198(t) \/ C204(t) \/ C206(t)

CloseAll(t) == CallCloseAll(t) \/ CloseAllBody(t)

\* the threads of the request pool calling get_connection() concurrently
Next == \E t \in Threads : GetConnection(t)

Spec == Init /\ [][Next]_vars

\* a fair scheduler and backends that answer: a thread inside get_connection()
\* that can take a step eventually takes one, and a thread waiting for a lock
\* that is released again and again eventually gets it
FairGetConnection(t) ==
    /\ WF_vars(GetConnectionBody(t))
    /\ SF_vars(G156(t))
    /\ SF_vars(G164(t))
    /\ SF_vars(S135(t))

SpecFair == Spec /\ \A t \in Threads : FairGetConnection(t)

\* the same, with close_all() called at any time by any thread
NextShutdown == \E t \in Threads : GetConnection(t) \/ CloseAll(t)

SpecShutdown == Init /\ [][NextShutdown]_vars

\* no call is in progress
Quiet == \A t \in Threads : pc[t] = "idle"

\* calls that do not overlap: a call starts when no call is in progress
\* (the startup and shutdown hooks of main.py, a single-threaded test).
\* The calls follow each other within one TTL window: the clock is not
\* advanced here, SpecCacheSequential is where time passes.
CallGetConnectionAlone(t) == Quiet /\ CallGetConnection(t)

CallCloseAllAlone(t) == Quiet /\ CallCloseAll(t)

CallDateRangeAlone(t) == Quiet /\ CallDateRange(t)

CallGetSqliteCursorAlone(t) == Quiet /\ CallGetSqliteCursor(t)

NextSequential ==
    \E t \in Threads :
        \/ CallGetConnectionAlone(t) \/ GetConnectionBody(t)
        \/ CallCloseAllAlone(t) \/ CloseAllBody(t)
        \/ CallDateRangeAlone(t) \/ DateRangeBody(t)

SpecSequential == Init /\ [][NextSequential]_vars

\* calls of get_connection(), get_sqlite_cursor() and close_all() that do
\* not overlap (main.py: startup, requests, shutdown)
NextLifecycle ==
    \E t \in Threads :
        \/ CallGetConnectionAlone(t) \/ GetConnectionBody(t)
        \/ CallGetSqliteCursorAlone(t) \/ GetSqliteCursorBody(t)
        \/ CallCloseAllAlone(t) \/ CloseAllBody(t)

SpecLifecycle == Init /\ [][NextLifecycle]_vars

\* the threads of the request pool entering get_sqlite_cursor() blocks and
\* calling get_connection() concurrently, without a shutdown
NextCursor ==
    \E t \in Threads :
        \/ GetConnection(t)
        \/ CallGetSqliteCursor(t) \/ GetSqliteCursorBody(t)

SpecCursor == Init /\ [][NextCursor]_vars

\* threads evaluating DatabaseManager() concurrently, from before the
\* first construction on
NextConstruct == \E t \in Threads : Construct(t)

SpecConstruct == InitConstruct /\ [][NextConstruct]_vars

\* the threads of the request pool calling get_date_range_cached concurrently
NextCache == Tick \/ \E t \in Threads : DateRange(t)

SpecCache == Init /\ [][NextCache]_vars

\* get_date_range_cached calls that do not overlap, time passing between
\* and during them
NextCacheSequential ==
    Tick \/ \E t \in Threads : CallDateRangeAlone(t) \/ DateRangeBody(t)

SpecCacheSequential == Init /\ [][NextCacheSequential]_vars

\* ---------------------------------------------------------------- claims
\* the observed call returns with this step
Returns == pc[observed] # "idle" /\ pc'[observed] = "idle"

\* C1: while no open+heartbeat of the primary has succeeded and the fallback
\* file exists, every get_connection() call that returned, returned a fallback
\* connection; one reconnect sequence at most has run in total, of at most
\* CH_MAX_RETRIES attempts, with a sleep only after an attempt that is not the
\* last: so no call waits for more than one full sequence.
C1_FallbackWhenPrimaryDown ==
    (next_client = 1 /\ db_exists) =>
        /\ result.kind \in {"none", "sqlite"}
        /\ result.kind = "sqlite" => result.handle # NoConn
        /\ seq_count <= 1
        /\ \A t \in Threads :
              /\ attempt[t] <= CH_MAX_RETRIES
              /\ pc[t] = "t109" => attempt[t] < CH_MAX_RETRIES

C1_Witness ==
    /\ next_client = 1 /\ db_exists
    /\ ch_available = "False"
    /\ result.kind = "sqlite"
    /\ \E t \in Threads : t # observed /\ pc[t] = "s136"

\* C2: between two resets of the flag to None the reconnect sequence runs
\* exactly once: never twice, and once the flag is decided (True or False) it
\* has run; a thread that finds the flag decided on its re-check under the
\* lock skips it.
C2_SequenceRunsOnce ==
    /\ seq_count <= 1
    /\ ch_available # "None" => seq_count = 1
    /\ \A t \in Threads : pc[t] \in SeqPcs => seq_count = 1

C2_Witness ==
    /\ seq_count = 1
    /\ pc[observed] = "g165"
    /\ ch_available # "None"
    /\ ~cache_failed

\* C3: at most one thread is inside _try_clickhouse_with_retry, and a thread
\* inside it holds _ch_lock.
C3_OneReconnectUnderLock ==
    /\ \A t \in Threads : pc[t] \in SeqPcs => ch_lock = t
    /\ Cardinality({t \in Threads : pc[t] \in SeqPcs}) <= 1

C3_Witness ==
    \E t, u \in Threads : t # u /\ pc[t] = "t109" /\ pc[u] = "g164"

C5_FailedHandleNeverReturned ==
    [][(Returns /\ result'.kind = "primary") =>
          /\ ~late
          /\ hb_failed # NoClient => result'.handle > hb_failed]_vars

\* C5 amended: the call whose heartbeat failed returns a handle opened after
\* the failure, a fallback connection, or the error of a missing fallback
\* file: never the handle its heartbeat failed on.
C5_FailingCallDropsHandle ==
    [][(Returns /\ hb_failed # NoClient) =>
          \/ result'.kind = "primary" /\ result'.handle > hb_failed
          \/ result'.kind = "sqlite" /\ result'.handle # NoConn
          \/ result'.kind = "error" /\ ~db_exists]_vars

C5_Witness ==
    /\ hb_failed # NoClient
    /\ pc[observed] = "g167"
    /\ ch_client > hb_failed

\* C6: a get_connection() call that returns is_sqlite = False returns a
\* client, not None.
C6_PrimaryIsNeverNone ==
    result.kind = "primary" => result.handle # NoClient

\* C7: _ch_available is True implies _ch_client is not None.
C7_AvailableHasClient ==
    ch_available = "True" => ch_client # NoClient

\* C8: a call that starts when the flag is False (no close_all() in progress
\* or called since) goes straight to the fallback: it takes no lock, opens no
\* client, sends no heartbeat, and returns a fallback connection (the error of
\* line 126 if the fallback file is missing); and only line 206 of close_all()
\* changes a False flag.
C8_UnavailableIsFinal ==
    /\ [](unavail => (pc[observed] \in FallbackPcs /\ ch_lock # observed))
    /\ [][(Returns /\ unavail) =>
             \/ result'.kind = "sqlite" /\ result'.handle # NoConn
             \/ result'.kind = "error" /\ ~db_exists]_vars
    /\ [][(ch_available = "False" /\ ch_available' # "False") =>
             \E t \in Threads : pc[t] = "c206" /\ pc'[t] = "idle"]_vars

C8_Witness ==
    /\ unavail
    /\ pc[observed] = "s136"
    /\ \E t \in Threads : t # observed /\ pc[t] = "g163"

\* C9: the flag changes only None -> True (line 99, an attempt succeeded),
\* None -> False (line 112, after CH_MAX_RETRIES failed attempts),
\* True -> None (line 160, after a failed heartbeat) and to None at line 206
\* of close_all(); never True -> False or False -> True.
C9_FlagTransitions ==
    [][ch_available' # ch_available =>
          \/ /\ ch_available = "None" /\ ch_available' = "True"
             /\ \E t \in Threads : pc[t] = "t99" /\ pc'[t] = "t100"
          \/ /\ ch_available = "None" /\ ch_available' = "False"
             /\ \E t \in Threads : /\ pc[t] = "t112" /\ pc'[t] = "s121"
                                   /\ attempt[t] = CH_MAX_RETRIES
          \/ /\ ch_available = "True" /\ ch_available' = "None"
             /\ \E t \in Threads : pc[t] = "g160" /\ pc'[t] = "g163"
          \/ /\ ch_available' = "None"
             /\ \E t \in Threads : pc[t] = "c206" /\ pc'[t] = "idle"]_vars

C9_Witness ==
    /\ ch_available = "False"
    /\ cache_failed = FALSE /\ next_client > 1
    /\ \E t \in Threads : pc[t] = "c206"

\* C10: no two threads are bound to the same fallback connection, a call
\* returns the connection its thread is bound to, and a thread's binding,
\* once made, never changes.
C10_FallbackPerThread ==
    /\ [](\A t, u \in Threads :
             (t # u /\ thread_local[t] # NoConn) => thread_local[t] # thread_local[u])
    /\ [](result.kind = "sqlite" => result.handle = thread_local[observed])
    /\ [][\A t \in Threads :
             thread_local[t] # NoConn => thread_local'[t] = thread_local[t]]_vars

\* the observed call has returned its thread's connection while another thread,
\* already bound to a different connection, is inside a repeated call at line 121
C10_Witness ==
    /\ result.kind = "sqlite"
    /\ result.handle = thread_local[observed]
    /\ \E t \in Threads :
          /\ t # observed
          /\ pc[t] = "s121"
          /\ thread_local[t] # NoConn
          /\ thread_local[t] # thread_local[observed]

\* C11: when close_all() has returned and no call has started since, the
\* manager is as __init__ leaves it: flag None, no client, no tracked
\* connection, no thread bound to a fallback connection, and no cached date
\* range.
C11_CloseAllResets ==
    (closed_last /\ Quiet) =>
        /\ ch_available = "None"
        /\ ch_client = NoClient
        /\ sqlite_conns = <<>>
        /\ \A t \in Threads : thread_local[t] = NoConn
        /\ date_range_cache = NoValue
        /\ date_range_ts = 0

\* C12: every step of a close_all() that runs directly after a close_all()
\* returned leaves the tracked list, the client and the flag as they were,
\* and the call returns normally.
C12_CloseAllIdempotent ==
    [][(closed_last /\ \E t \in Threads : pc[t] \in ClosePcs) =>
          /\ UNCHANGED <<sqlite_conns, ch_client, ch_available>>
          /\ Returns => result'.kind = "closed"]_vars

C12_Witness ==
    /\ closed_last
    /\ sqlite_closed # {}
    /\ pc[observed] = "c206"

\* the observed get_date_range_cached call ends with this step
ReturnsDate == pc[observed] \in {"d78", "d79", "d81"} /\ pc'[observed] = "idle"

\* C13: of calls that do not overlap, one made less than a TTL after the
\* capture time of the stored entry does not invoke fetch_impl_func and
\* returns the stored tuple; one made more than a TTL after it (or with
\* nothing stored) invokes fetch_impl_func.
C13_TtlWindow ==
    [][ReturnsDate =>
          /\ (seen.cache # NoValue /\ now[observed] - seen.ts < DATE_RANGE_TTL) =>
                /\ ~computed
                /\ result' = [kind |-> "date", handle |-> seen.cache]
          /\ (seen.cache = NoValue \/ now[observed] - seen.ts > DATE_RANGE_TTL) =>
                \/ computed
                \/ pc[observed] = "d79" /\ result'.kind = "raise"]_vars

\* the scenario of the spec: computed at t = 0, a hit at t = 30 ...
C13_Witness ==
    /\ pc[observed] = "d78"
    /\ seen = [cache |-> 1, ts |-> 0]
    /\ now[observed] = 30

\* C14: a fetch_impl_func that raises ends the call with that exception and
\* leaves _date_range_cache and _date_range_ts as they were; the call that
\* follows a call that raised invokes fetch_impl_func again.
C14_FailureNotCached ==
    /\ [][\A t \in Threads :
             (pc[t] = "d79" /\ pc'[t] = "idle") =>
                /\ UNCHANGED <<date_range_cache, date_range_ts>>
                /\ t = observed => result'.kind = "raise"]_vars
    /\ [][(ReturnsDate /\ prev_raised) =>
             (computed \/ pc[observed] = "d79")]_vars

C14_Witness ==
    /\ prev_raised
    /\ computed
    /\ pc[observed] = "d80"
    /\ date_range_cache # NoValue

\* C15: whenever no refresh is between its two assignments (lines 80 and 81),
\* the stored tuple and the stored timestamp were written by the same call.
C15_EntryFromOneRefresh ==
    (\A t \in Threads : pc[t] # "d81") => date_range_cache = ts_by

\* b to the power e
RECURSIVE Pow(_, _)
Pow(b, e) == IF e = 0 THEN 1 ELSE b * Pow(b, e - 1)

\* C16: the delay slept after failed attempt k is
\* CH_RETRY_BASE_DELAY * CH_RETRY_BACKOFF^(k-1) and k < CH_MAX_RETRIES; the
\* delays of one sequence never decrease; after attempt CH_MAX_RETRIES the
\* sequence ends (line 112) without a further sleep.
C16_GeometricDelay ==
    /\ \A t \in Threads :
          /\ pc[t] = "t109" =>
                /\ attempt[t] < CH_MAX_RETRIES
                /\ Len(sleeps) = attempt[t] - 1
                /\ delay[t] = CH_RETRY_BASE_DELAY * Pow(CH_RETRY_BACKOFF, attempt[t] - 1)
          /\ pc[t] = "t112" =>
                /\ attempt[t] = CH_MAX_RETRIES
                /\ Len(sleeps) = CH_MAX_RETRIES - 1
    /\ \A k \in DOMAIN sleeps :
          /\ sleeps[k] = CH_RETRY_BASE_DELAY * Pow(CH_RETRY_BACKOFF, k - 1)
          /\ k > 1 => sleeps[k - 1] <= sleeps[k]

C16_Witness ==
    /\ sleeps = <<1, 2>>
    /\ \E t \in Threads : pc[t] = "t112" /\ attempt[t] = CH_MAX_RETRIES

\* thread t leaves the reconnect sequence by line 112 with this step
Exhausts(t) == pc[t] = "t112" /\ pc'[t] # "t112"

\* C17: a reconnect sequence in which the primary never answered ends after
\* exactly CH_MAX_RETRIES = 3 attempts and two sleeps, of 1 then 2 (3 in all,
\* none after the last attempt), with the flag set to False; a call that
\* starts after that never enters the sequence (so never sleeps), takes no
\* lock, and returns a fallback connection when the fallback file exists.
C17_ScenarioA ==
    /\ [][\A t \in Threads :
             Exhausts(t) =>
                /\ attempt[t] = 3
                /\ sleeps = <<1, 2>>
                /\ sleeps[1] + sleeps[2] = 3
                /\ ch_available' = "False"]_vars
    /\ [](unavail => pc[observed] \notin SeqPcs \cup {"g156", "g164", "g165"})
    /\ [][(Returns /\ unavail /\ db_exists) =>
             /\ result'.kind = "sqlite"
             /\ result'.handle = thread_local'[observed]]_vars

C17_Witness ==
    /\ unavail
    /\ next_client = 1
    /\ pc[observed] = "s121"
    /\ thread_local[observed] # NoConn

C19_ErrorMeansFallback ==
    [][(Returns /\ hb_failed # NoClient /\ db_exists) =>
          result'.kind = "sqlite"]_vars

\* C19 amended: the only exception that leaves get_connection() is the one
\* of line 126 (no fallback file); a call in which a heartbeat failed goes
\* on to the reconnect sequence and returns either the client a later
\* attempt opened or a fallback connection.
C19_PrimaryErrorsSwallowed ==
    /\ [][(Returns /\ result'.kind = "error") =>
             (pc[observed] = "s125" /\ ~db_exists)]_vars
    /\ [][\A t \in Threads :
             pc[t] \in {"g152", "t93"} => pc'[t] # "idle"]_vars
    /\ [][(Returns /\ hb_failed # NoClient /\ db_exists) =>
             \/ result'.kind = "sqlite" /\ pc[observed] \in {"s121", "s136"}
             \/ result'.kind = "primary" /\ pc[observed] = "g167"]_vars

\* a heartbeat failed, the first attempt to reopen failed, the second
\* succeeded: the call is about to return the new client
C19_Witness ==
    /\ hb_failed # NoClient
    /\ pc[observed] = "t100"
    /\ attempt[observed] = 2

C21_CursorClosedConnKept ==
    /\ [](cursor_open = {t \in Threads : pc[t] \in {"k181", "k183"}})
    /\ [](sqlite_closed = {})
    /\ [][\A t \in Threads :
             thread_local[t] # NoConn => thread_local'[t] = thread_local[t]]_vars
    /\ [][(Returns /\ pc[observed] = "k183") =>
             /\ observed \notin cursor_open'
             /\ result'.kind = IF leave[observed] = "exception" THEN "raise" ELSE "cursor"
             /\ leave[observed] \in {"normal", "exception", "return"}]_vars
    /\ [][(Returns /\ result'.kind \in {"sqlite", "cursor", "raise"}) =>
             /\ result'.handle = thread_local[observed]
             /\ result'.handle # NoConn
             /\ UNCHANGED <<thread_local, sqlite_conns, sqlite_closed>>
                  \/ pc[observed] = "s136"]_vars

C21_Witness ==
    /\ result.kind = "raise"
    /\ pc[observed] = "idle"
    /\ observed \notin cursor_open
    /\ result.handle = thread_local[observed]
    /\ \E t \in Threads : t \in cursor_open /\ cur_conn[t] # result.handle

\* C22 as claimed: at most one instance is created, and every construction
\* DatabaseManager() that ends has returned that instance.
C22_ConstructionReturnsSingleton ==
    /\ created <= 1
    /\ result.kind # "none" => result = [kind |-> "instance", handle |-> 1]

\* C23 as claimed: a call whose heartbeat failed on a handle discards the
\* cached handle (line 159) only when the cached handle is still the one the
\* heartbeat failed on.
C23_ResetOnlyStaleHandle ==
    [][(hb_failed # NoClient /\ pc[observed] = "g159" /\ pc'[observed] = "g160") =>
          ch_client = hb_failed]_vars

\* C24: a conn.close() that raises inside close_all() ends neither the call
\* nor the loop: the loop goes on to the next tracked connection, close has
\* been called on every tracked connection when the list is cleared, and the
\* list is empty when close_all() returns (no other call overlapping it).
C24_CloseErrorsIgnored ==
    /\ [][\A t \in Threads :
             (pc[t] = "c191" /\ pc'[t] # "c191") =>
                 /\ pc'[t] = "c189"
                 /\ sqlite_conns_lock' = t
                 /\ UNCHANGED <<sqlite_conns, idx>>
                 /\ sqlite_closed' \cup close_raised' =
                        sqlite_closed \cup close_raised \cup {sqlite_conns[idx[t]]}]_vars
    /\ [](\A t \in Threads :
             pc[t] = "c194" =>
                 \A i \in DOMAIN sqlite_conns :
                     sqlite_conns[i] \in sqlite_closed \cup close_raised)
    /\ [][(Returns /\ pc[observed] \in ClosePcs) =>
             /\ pc[observed] = "c206"
             /\ result'.kind = "closed"
             /\ sqlite_conns' = <<>>]_vars

C24_Witness ==
    /\ pc[observed] = "c194"
    /\ Len(sqlite_conns) = 2
    /\ sqlite_conns[1] \in close_raised
    /\ sqlite_conns[2] \in sqlite_closed

\* C25: with an entry stored, a call is a hit (line 78, no fetch) exactly
\* when now - _date_range_ts < ttl; at a difference of exactly ttl, and at
\* any larger one, it is a miss and calls fetch_impl_func.
C25_StrictTtl ==
    [][(ReturnsDate /\ seen.cache # NoValue) =>
          LET age == now[observed] - seen.ts
          IN  /\ (age < DATE_RANGE_TTL) <=> (pc[observed] = "d78" /\ ~computed)
              /\ (age >= DATE_RANGE_TTL) <=> (computed \/ pc[observed] = "d79")
              /\ age = DATE_RANGE_TTL => pc[observed] # "d78"]_vars

C25_Witness ==
    /\ pc[observed] = "d80"
    /\ computed
    /\ seen.cache # NoValue
    /\ now[observed] - seen.ts = DATE_RANGE_TTL

\* C26 as claimed: no call hands its caller a fallback connection that
\* close_all() has closed, and get_sqlite_cursor() never fails on one.
C26_NoClosedConnHandedOut ==
    [][Returns =>
          /\ result'.kind = "sqlite" => result'.handle \notin sqlite_closed
          /\ result'.kind # "unusable"]_vars

\* C27: under fair scheduling every get_connection() call in progress
\* eventually ends. No thread holds _ch_lock while it holds or waits for
\* _sqlite_conns_lock, or the other way round, and a thread that is in no
\* call holds no lock.
C27_GetConnectionTerminates ==
    /\ \A t \in Threads : (pc[t] # "idle") ~> (pc[t] = "idle")
    /\ [](\A t \in Threads :
             /\ ch_lock = t => (sqlite_conns_lock # t /\ pc[t] # "s135")
             /\ sqlite_conns_lock = t => pc[t] \notin {"g156", "g164"}
             /\ pc[t] = "idle" => (ch_lock # t /\ sqlite_conns_lock # t))

C27_Witness ==
    /\ pc[observed] = "g156"
    /\ \E t \in Threads : ch_lock = t /\ pc[t] = "t109" /\ attempt[t] = 2
    /\ result = NoResult

\* the connections sqlite3.connect() has returned, and those in _sqlite_conns
Opened == 1 .. (next_conn - 1)

Tracked == {sqlite_conns[i] : i \in DOMAIN sqlite_conns}

\* the connections whose append (line 136) is still to come
AppendPending == {conn[t] : t \in {u \in Threads : pc[u] \in {"s135", "s136"}}}

C29_LateCallerGetsFallback ==
    /\ [][(pc[observed] = "g165" /\ pc'[observed] # "g165" /\ ch_available = "True") =>
             /\ pc'[observed] = "s121"
             /\ found_available'
             /\ ch_lock = observed /\ ch_lock' = NoThread
             /\ UNCHANGED <<ch_client, ch_available, seq_count>>]_vars
    /\ [](found_available => pc[observed] \in {"s121", "s125", "s135", "s136"})
    /\ [][(Returns /\ found_available) =>
             IF db_exists
             THEN /\ result'.kind = "sqlite"
                  /\ result'.handle = thread_local'[observed]
                  /\ result'.handle # NoConn
             ELSE result'.kind = "error"]_vars

C29_Witness ==
    /\ found_available
    /\ pc[observed] = "s136"
    /\ ch_available = "True"
    /\ ch_client # NoClient
    /\ ~hb_ever_failed

\* C30 as claimed: _date_range_ts never decreases.
C30_TimestampMonotone ==
    [][date_range_ts' >= date_range_ts]_vars

====
